---- MODULE Spec2Model ----
(***************************************************************************)
(* Pipeline flow reconstruction and tag classification of hezop-analyzer.  *)
(*                                                                         *)
(*   Spec         build_flow_by_following_sequence   (src/s2_DS.py)        *)
(*   SpecExtract  extract_complete_pipeline_flows, the rows of one tag     *)
(*                up to the call of the flow builder (src/s2_DS.py)        *)
(*   SpecResolve  find_best_match of classify_tags_preserve_flow           *)
(*                (src/s5_classify_tags.py)                                *)
(*                                                                         *)
(* A label of the flow builder is an opaque string. Where the code looks   *)
(* inside a string (strip, clean_text, lower, SequenceMatcher) the string  *)
(* is the sequence of its characters, each character a token: "+-" is the  *)
(* plus-minus sign, "deg" the degree sign, "A^" A circumflex, "F." and     *)
(* "f." F and f with a dot above. A score is a fraction in lowest terms.   *)
(***************************************************************************)
EXTENDS Integers, Sequences, FiniteSets, TLC

\* ------------------------------------------------------------------ bounds

\* Longest segment list handed to the flow builder.
MaxSegs == 3

\* Most rows of one pipeline tag in the segment table.
MaxRows == 2

\* Most reference records in the three tables of process_data together.
MaxRecs == 3

\* Node labels of the flow builder's inputs.
Labels == {"A", "B", "C", "D"}

\* ------------------------------------------------------------------- state

VARIABLES
    connections,        \* the segment list (argument of the flow builder)
    flow,               \* the node sequence under construction
    used_connections,   \* indices of the consumed segments, in order of use
    pc,                 \* "start", "loop" or "done"
    iters,              \* iterations of the while loop begun so far
    csv_rows,           \* the From and To cells of one tag's rows, as read
    df_pipelines,       \* the same rows in the data frame
    row,                \* index of the next row of tag_data
    all_pipeline_tags,  \* the keys of complete_pipeline_flows
    process_data,       \* the Equipment, Instrumentation, HandValves lists
    threshold,          \* the acceptance threshold of the classifier
    tag,                \* the argument of the latest find_best_match call
    match,              \* and what that call returned
    norm_arg,           \* a value handed to normalize_tag
    norm_variant,       \* the same text in another spelling
    norm_calls,         \* the calls of normalize_tag made, with their results
    merged_json,        \* the document written by merge_pid_core
    normalized_json,    \* the document written by normalize_merged_pid
    classified_json,    \* the document written by classify_tags_preserve_flow
    json_path,          \* the document the classifier was given
    PIPELINES,          \* the chat front end's complete_pipeline_flows
    PROCESS_DATA,       \* and its process_data
    TAG_TO_PIPELINES,   \* the reverse index: normalized tag to pipeline keys
    chat_history,       \* st.session_state.chat_history
    context             \* what the latest build_local_context call returned

flowVars == <<flow, used_connections, iters>>

extractVars == <<csv_rows, df_pipelines, row>>

resolveVars == <<all_pipeline_tags, process_data, threshold, tag, match>>

normalizeVars == <<norm_arg, norm_variant, norm_calls>>

documentVars == <<merged_json, normalized_json, classified_json, json_path>>

chatVars == <<PIPELINES, PROCESS_DATA, TAG_TO_PIPELINES, chat_history, context>>

\* What the actions of one stage leave alone: the other stages' state.
outsideFlow == <<extractVars, resolveVars, normalizeVars, documentVars,
                 chatVars>>

outsideExtract == <<flowVars, resolveVars, normalizeVars, documentVars,
                    chatVars>>

outsideResolve == <<connections, flowVars, extractVars, normalizeVars,
                    documentVars, chatVars>>

outsideNormalize == <<connections, flowVars, extractVars, resolveVars,
                      documentVars, chatVars>>

outsideDocument == <<connections, flowVars, extractVars, resolveVars,
                     normalizeVars, chatVars>>

outsideChat == <<connections, flowVars, extractVars, resolveVars,
                 normalizeVars>>

vars == <<connections, flow, used_connections, pc, iters,
          csv_rows, df_pipelines, row,
          all_pipeline_tags, process_data, threshold, tag, match,
          norm_arg, norm_variant, norm_calls,
          merged_json, normalized_json, classified_json, json_path,
          PIPELINES, PROCESS_DATA, TAG_TO_PIPELINES, chat_history, context>>

\* The state of a stage that is not running.
FlowIdle == flow = <<>> /\ used_connections = <<>> /\ iters = 0

ExtractIdle == csv_rows = <<>> /\ df_pipelines = <<>> /\ row = 0

ResolveIdle ==
    /\ all_pipeline_tags = {}
    /\ process_data = <<>>
    /\ threshold = <<>>
    /\ tag = <<>>
    /\ match = <<>>

NormalizeIdle == norm_arg = <<>> /\ norm_variant = <<>> /\ norm_calls = <<>>

DocumentIdle ==
    /\ merged_json = <<>>
    /\ normalized_json = <<>>
    /\ classified_json = <<>>
    /\ json_path = <<>>

ChatIdle ==
    /\ PIPELINES = <<>>
    /\ PROCESS_DATA = <<>>
    /\ TAG_TO_PIPELINES = <<>>
    /\ chat_history = <<>>
    /\ context = <<>>

\* --------------------------------------------------------------- utilities

Range(s) == {s[k] : k \in 1..Len(s)}

Last(s) == s[Len(s)]

Min(S) == CHOOSE m \in S : \A x \in S : m <= x

\* ------------------------------------------- build_flow_by_following_sequence

Segments == [from : Labels, to : Labels]

SegLists == UNION {[1..n -> Segments] : n \in 0..MaxSegs}

\* `i not in used_connections`
IsUnusedAlways(i, used) == TRUE

IsUnused(i, used) == \A k \in 1..Len(used) : used[k] # i

\* `label not in flow`
InFlow(label, f) == \E k \in 1..Len(f) : f[k] = label

\* Tail extension: the test of one segment against the last node, and the
\* node it contributes.
TailMatch(conn, last_node) == conn.from = last_node \/ conn.to = last_node

TailNodeSameEnd(conn, last_node) ==
    IF conn.from = last_node THEN conn.from ELSE conn.to

TailNode(conn, last_node) ==
    IF conn.from = last_node THEN conn.to ELSE conn.from

\* The first for loop: the index of the first unused segment, from index i
\* on, that touches last_node; 0 when the loop ends without a break.
RECURSIVE ScanTailLatest(_, _, _, _)
ScanTailLatest(conns, used, last_node, i) ==
    IF i > Len(conns) THEN 0
    ELSE LET rest == ScanTailLatest(conns, used, last_node, i + 1)
         IN  IF rest # 0 THEN rest
             ELSE IF IsUnused(i, used) /\ TailMatch(conns[i], last_node)
                  THEN i ELSE 0

RECURSIVE ScanTail(_, _, _, _)
ScanTail(conns, used, last_node, i) ==
    IF i > Len(conns) THEN 0
    ELSE IF IsUnused(i, used) /\ TailMatch(conns[i], last_node) THEN i
    ELSE ScanTail(conns, used, last_node, i + 1)

\* Head extension, symmetrically; `to` is tested before `from`.
HeadMatch(conn, first_node) == conn.to = first_node \/ conn.from = first_node

HeadNodeSameEnd(conn, first_node) ==
    IF conn.to = first_node THEN conn.to ELSE conn.from

HeadNode(conn, first_node) ==
    IF conn.to = first_node THEN conn.from ELSE conn.to

RECURSIVE ScanHeadLatest(_, _, _, _)
ScanHeadLatest(conns, used, first_node, i) ==
    IF i > Len(conns) THEN 0
    ELSE LET rest == ScanHeadLatest(conns, used, first_node, i + 1)
         IN  IF rest # 0 THEN rest
             ELSE IF IsUnused(i, used) /\ HeadMatch(conns[i], first_node)
                  THEN i ELSE 0

RECURSIVE ScanHead(_, _, _, _)
ScanHead(conns, used, first_node, i) ==
    IF i > Len(conns) THEN 0
    ELSE IF IsUnused(i, used) /\ HeadMatch(conns[i], first_node) THEN i
    ELSE ScanHead(conns, used, first_node, i + 1)

\* One iteration of the while loop up to its decision: which of the three
\* branches runs, and on which segment. The tail is tried first, the head
\* only when found_extension is still False, the fallback only when both
\* scans ended without a hit.
ExtensionHeadFirst(conns, used, f) ==
    LET h == ScanHead(conns, used, f[1], 1)
        t == ScanTail(conns, used, Last(f), 1)
    IN  IF h # 0 THEN [kind |-> "head", idx |-> h]
        ELSE IF t # 0 THEN [kind |-> "tail", idx |-> t]
        ELSE [kind |-> "none", idx |-> 0]

Extension(conns, used, f) ==
    LET t == ScanTail(conns, used, Last(f), 1)
        h == ScanHead(conns, used, f[1], 1)
    IN  IF t # 0 THEN [kind |-> "tail", idx |-> t]
        ELSE IF h # 0 THEN [kind |-> "head", idx |-> h]
        ELSE [kind |-> "none", idx |-> 0]

\* The fallback loop: every unused segment, in list order, contributes its
\* from and then its to unless the label is already in the flow.
AbsorbOne(conn, f) ==
    LET f1 == IF InFlow(conn.from, f) THEN f ELSE Append(f, conn.from)
    IN  IF InFlow(conn.to, f1) THEN f1 ELSE Append(f1, conn.to)

RECURSIVE AbsorbFirstOnly(_, _, _, _)
AbsorbFirstOnly(conns, used, f, i) ==
    IF i > Len(conns) THEN f
    ELSE IF IsUnused(i, used) THEN AbsorbOne(conns[i], f)
    ELSE AbsorbFirstOnly(conns, used, f, i + 1)

RECURSIVE AbsorbFlow(_, _, _, _)
AbsorbFlow(conns, used, f, i) ==
    IF i > Len(conns) THEN f
    ELSE IF IsUnused(i, used)
         THEN AbsorbFlow(conns, used, AbsorbOne(conns[i], f), i + 1)
         ELSE AbsorbFlow(conns, used, f, i + 1)

RECURSIVE AbsorbUsed(_, _, _)
AbsorbUsed(conns, used, i) ==
    IF i > Len(conns) THEN used
    ELSE IF IsUnused(i, used)
         THEN AbsorbUsed(conns, Append(used, i), i + 1)
         ELSE AbsorbUsed(conns, used, i + 1)

\* The flow of a single-segment list, and the seed of the general case.
SingleFlowDeduplicated(conns) ==
    IF conns[1].from = conns[1].to THEN <<conns[1].from>>
    ELSE <<conns[1].from, conns[1].to>>

SingleFlow(conns) == <<conns[1].from, conns[1].to>>

\* A seed that would not repeat the label of a self-loop.
SeedFlowDeduplicated(conns) ==
    IF conns[1].from = conns[1].to THEN <<conns[1].from>>
    ELSE <<conns[1].from, conns[1].to>>

SeedFlow(conns) == <<conns[1].from, conns[1].to>>

\* ------------------------------------------------------------ flow actions

Init ==
    /\ connections \in SegLists
    /\ flow = <<>>
    /\ used_connections = <<>>
    /\ pc = "start"
    /\ iters = 0
    /\ ExtractIdle
    /\ ResolveIdle
    /\ NormalizeIdle
    /\ DocumentIdle
    /\ ChatIdle

\* `if not connections: return []`
ReturnEmpty ==
    /\ pc = "start"
    /\ Len(connections) = 0
    /\ flow' = <<>>
    /\ pc' = "done"
    /\ UNCHANGED <<connections, used_connections, iters, outsideFlow>>

\* `if len(connections) == 1: return [from, to]`
ReturnSingle ==
    /\ pc = "start"
    /\ Len(connections) = 1
    /\ flow' = SingleFlow(connections)
    /\ pc' = "done"
    /\ UNCHANGED <<connections, used_connections, iters, outsideFlow>>

\* The flow starts as the first segment, which is marked used.
StartStitching ==
    /\ pc = "start"
    /\ Len(connections) > 1
    /\ flow' = SeedFlow(connections)
    /\ used_connections' = <<1>>
    /\ pc' = "loop"
    /\ UNCHANGED <<connections, iters, outsideFlow>>

\* An iteration of the while loop that extends the flow at its end.
TailExtend ==
    /\ pc = "loop"
    /\ Len(used_connections) < Len(connections)
    /\ LET e == Extension(connections, used_connections, flow)
       IN  /\ e.kind = "tail"
           /\ flow' = Append(flow, TailNode(connections[e.idx], Last(flow)))
           /\ used_connections' = Append(used_connections, e.idx)
    /\ iters' = iters + 1
    /\ UNCHANGED <<connections, pc, outsideFlow>>

\* An iteration that prepends to the flow.
HeadExtend ==
    /\ pc = "loop"
    /\ Len(used_connections) < Len(connections)
    /\ LET e == Extension(connections, used_connections, flow)
       IN  /\ e.kind = "head"
           /\ flow' = <<HeadNode(connections[e.idx], flow[1])>> \o flow
           /\ used_connections' = Append(used_connections, e.idx)
    /\ iters' = iters + 1
    /\ UNCHANGED <<connections, pc, outsideFlow>>

\* An iteration that finds no extension: the remaining segments are
\* absorbed and the loop is left by `break`.
AbsorbDisconnected ==
    /\ pc = "loop"
    /\ Len(used_connections) < Len(connections)
    /\ Extension(connections, used_connections, flow).kind = "none"
    /\ flow' = AbsorbFlow(connections, used_connections, flow, 1)
    /\ used_connections' = AbsorbUsed(connections, used_connections, 1)
    /\ iters' = iters + 1
    /\ pc' = "done"
    /\ UNCHANGED <<connections, outsideFlow>>

\* The while condition fails: `return flow`.
LoopExit ==
    /\ pc = "loop"
    /\ Len(used_connections) >= Len(connections)
    /\ pc' = "done"
    /\ UNCHANGED <<connections, flow, used_connections, iters, outsideFlow>>

Next ==
    \/ ReturnEmpty
    \/ ReturnSingle
    \/ StartStitching
    \/ TailExtend
    \/ HeadExtend
    \/ AbsorbDisconnected
    \/ LoopExit

Spec == Init /\ [][Next]_vars

\* ------------------------------------------ extract_complete_pipeline_flows

Whitespace == {" "}

\* The text "nan", which astype(str) makes of a missing cell.
NanText == <<"n", "a", "n">>

RELEASE == <<"R", "E", "L", "E", "A", "S", "E">>

\* str.strip()
RECURSIVE LStrip(_)
LStrip(s) ==
    IF s # <<>> /\ Head(s) \in Whitespace THEN LStrip(Tail(s)) ELSE s

RECURSIVE RStrip(_)
RStrip(s) ==
    IF s # <<>> /\ Last(s) \in Whitespace
    THEN RStrip(SubSeq(s, 1, Len(s) - 1)) ELSE s

Strip(s) == RStrip(LStrip(s))

\* The re.sub calls of clean_text that blank the encoding artifacts: the
\* pair A circumflex, f-dot first, then the single characters.
Artifacts == {"A^", "F.", "+-", "deg"}

RECURSIVE ReplaceArtifacts(_)
ReplaceArtifacts(s) ==
    IF s = <<>> THEN <<>>
    ELSE IF Len(s) >= 2 /\ s[1] = "A^" /\ s[2] = "f."
         THEN <<" ">> \o ReplaceArtifacts(SubSeq(s, 3, Len(s)))
    ELSE IF Head(s) \in Artifacts
         THEN <<" ">> \o ReplaceArtifacts(Tail(s))
    ELSE <<Head(s)>> \o ReplaceArtifacts(Tail(s))

\* re.sub(r'\s+', ' ', text)
RECURSIVE CollapseSpaces(_)
CollapseSpaces(s) ==
    IF s = <<>> THEN <<>>
    ELSE IF Head(s) \in Whitespace
         THEN <<" ">> \o CollapseSpaces(LStrip(s))
    ELSE <<Head(s)>> \o CollapseSpaces(Tail(s))

clean_text(text) ==
    IF text = NanText THEN <<>>
    ELSE Strip(CollapseSpaces(ReplaceArtifacts(text)))

\* A cell of the table as read: missing, or a text.
Missing == [isna |-> TRUE, text |-> <<>>]

Text(s) == [isna |-> FALSE, text |-> s]

CellPool ==
    { Missing,
      Text(<<"A">>),
      Text(<<" ", "B", " ">>),
      Text(<<"+-">>),
      Text(<<"+-", "n", "a", "n">>),
      Text(<<"A", "deg", " ", "B">>) }

CsvRows == [From : CellPool, To : CellPool]

\* astype(str).str.strip(), then clean_text, on one cell of From or To.
AsTypeStr(cell) == IF cell.isna THEN NanText ELSE cell.text

CleanCell(cell) == clean_text(Strip(AsTypeStr(cell)))

CleanRow(r) == [From |-> CleanCell(r.From), To |-> CleanCell(r.To)]

\* `if from_node and from_node != 'nan'`
KeepRow(from_node) == from_node # <<>> /\ from_node # NanText

\* `if not to_node or to_node == 'nan': to_node = 'RELEASE'`
DefaultToOnlyEmpty(to_node) == IF to_node = <<>> THEN RELEASE ELSE to_node

DefaultTo(to_node) ==
    IF to_node = <<>> \/ to_node = NanText THEN RELEASE ELSE to_node

\* The body of the loop over tag_data.iterrows().
RowConnections(conns, r) ==
    LET from_node == Strip(r.From)
        to_node == Strip(r.To)
    IN  IF KeepRow(from_node)
        THEN Append(conns, [from |-> from_node, to |-> DefaultTo(to_node)])
        ELSE conns

ExtractInit ==
    /\ csv_rows \in UNION {[1..n -> CsvRows] : n \in 0..MaxRows}
    /\ df_pipelines = csv_rows
    /\ row = 0
    /\ connections = <<>>
    /\ pc = "read"
    /\ FlowIdle
    /\ ResolveIdle
    /\ NormalizeIdle
    /\ DocumentIdle
    /\ ChatIdle

\* The From and To columns are converted to text, stripped and cleaned.
CleanFrame ==
    /\ pc = "read"
    /\ df_pipelines' = [r \in 1..Len(df_pipelines) |->
                            CleanRow(df_pipelines[r])]
    /\ row' = 1
    /\ pc' = "rows"
    /\ UNCHANGED <<connections, csv_rows, outsideExtract>>

\* One row of the tag: a connection is appended, or the row is passed over.
ProcessRow ==
    /\ pc = "rows"
    /\ row <= Len(df_pipelines)
    /\ connections' = RowConnections(connections, df_pipelines[row])
    /\ row' = row + 1
    /\ UNCHANGED <<pc, csv_rows, df_pipelines, outsideExtract>>

\* `if connections:` the list goes to build_flow_by_following_sequence.
CallBuilder ==
    /\ pc = "rows"
    /\ row > Len(df_pipelines)
    /\ connections # <<>>
    /\ pc' = "start"
    /\ UNCHANGED <<connections, extractVars, outsideExtract>>

\* No valid connection: the tag gets no flow.
NoConnections ==
    /\ pc = "rows"
    /\ row > Len(df_pipelines)
    /\ connections = <<>>
    /\ pc' = "skip"
    /\ UNCHANGED <<connections, extractVars, outsideExtract>>

ExtractNext ==
    \/ CleanFrame
    \/ ProcessRow
    \/ CallBuilder
    \/ NoConnections

SpecExtract == ExtractInit /\ [][ExtractNext]_vars

\* ------------------------------------ classify_tags_preserve_flow: resolver

\* str.lower() on the letters A to Z.
UpperCase ==
    <<"A", "B", "C", "D", "E", "F", "G", "H", "I", "J", "K", "L", "M",
      "N", "O", "P", "Q", "R", "S", "T", "U", "V", "W", "X", "Y", "Z">>

LowerCase ==
    <<"a", "b", "c", "d", "e", "f", "g", "h", "i", "j", "k", "l", "m",
      "n", "o", "p", "q", "r", "s", "t", "u", "v", "w", "x", "y", "z">>

LowerChar(c) ==
    IF \E k \in 1..Len(UpperCase) : UpperCase[k] = c
    THEN LowerCase[CHOOSE k \in 1..Len(UpperCase) : UpperCase[k] = c]
    ELSE c

ToLower(s) == [k \in 1..Len(s) |-> LowerChar(s[k])]

\* A score: a float of the code, kept as a fraction in lowest terms.
RECURSIVE GCD(_, _)
GCD(m, n) == IF n = 0 THEN m ELSE GCD(n, m % n)

Ratio(n, d) == [num |-> n \div GCD(n, d), den |-> d \div GCD(n, d)]

ScoreGreater(x, y) == x.num * y.den > y.num * x.den

ScoreAtLeast(x, y) == x.num * y.den >= y.num * x.den

\* difflib.SequenceMatcher(None, a, b), whose junk heuristic is off for
\* strings of fewer than 200 characters. Positions are 1-based and the
\* bounds inclusive.
RECURSIVE RunLength(_, _, _, _, _, _)
RunLength(a, i, ahi, b, j, bhi) ==
    IF i > ahi \/ j > bhi THEN 0
    ELSE IF a[i] # b[j] THEN 0
    ELSE 1 + RunLength(a, i + 1, ahi, b, j + 1, bhi)

\* The longest common block of a[alo..ahi] and b[blo..bhi]; of the longest
\* blocks the one that starts earliest in a, and of those the one that
\* starts earliest in b.
find_longest_match(a, alo, ahi, b, blo, bhi) ==
    LET starts == (alo..ahi) \X (blo..bhi)
        size(p) == RunLength(a, p[1], ahi, b, p[2], bhi)
        Before(p, q) ==
            \/ size(p) > size(q)
            \/ /\ size(p) = size(q)
               /\ \/ p[1] < q[1]
                  \/ p[1] = q[1] /\ p[2] <= q[2]
        best == CHOOSE p \in starts : \A q \in starts : Before(p, q)
    IN  [i |-> best[1], j |-> best[2], size |-> size(best)]

\* The sum of the sizes of get_matching_blocks().
RECURSIVE MatchedCount(_, _, _, _, _, _)
MatchedCount(a, alo, ahi, b, blo, bhi) ==
    IF alo > ahi \/ blo > bhi THEN 0
    ELSE LET m == find_longest_match(a, alo, ahi, b, blo, bhi)
         IN  IF m.size = 0 THEN 0
             ELSE m.size
                  + MatchedCount(a, alo, m.i - 1, b, blo, m.j - 1)
                  + MatchedCount(a, m.i + m.size, ahi, b, m.j + m.size, bhi)

\* ratio(): 2.0 * matches / (len(a) + len(b)), and 1.0 for two empty strings.
ratio(a, b) ==
    IF Len(a) + Len(b) = 0 THEN Ratio(1, 1)
    ELSE Ratio(2 * MatchedCount(a, 1, Len(a), b, 1, Len(b)), Len(a) + Len(b))

\* JSON values that reach the resolver as a tag.
PyStr(s) == [type |-> "str", text |-> s]

PyNone == [type |-> "NoneType", text |-> <<>>]

PyInt == [type |-> "int", text |-> <<>>]

\* The documents the resolver is tried on.
TK1 == <<"T", "K", "1">>

tk1 == <<"t", "k", "1">>

TK1OUT == <<"T", "K", "1", "-", "O", "U", "T">>

\* Tags of reference records; a record without a Tag has the tag "".
RefTags == {TK1, tk1, TK1OUT, <<>>}

\* Pipeline keys are stripped, non-empty texts other than 'nan'
\* (extract_complete_pipeline_flows, the Tag column).
KeySets == { {<<"P", "1">>}, {<<"P", "1">>, TK1} }

\* threshold=0.6 by default, and a caller's 0.7.
Thresholds == {Ratio(6, 10), Ratio(7, 10)}

QueryTags ==
    { PyNone, PyInt, PyStr(<<>>), PyStr(<<" ">>),
      PyStr(<<"P", "1">>), PyStr(<<"p", "1">>), PyStr(<<"P", "-", "1">>),
      PyStr(TK1), PyStr(tk1), PyStr(<<" ", "T", "K", "1">>),
      PyStr(<<"T", "K", "-", "O", "1">>) }

\* The labels and the reference Tags of the documents that are taken
\* through the normalizer and the classifier: "TK-01", "PU-01", "P-100",
\* "P-200", "-", and "TK01", "PU01".
TK01L == <<"T", "K", "-", "0", "1">>

PU01L == <<"P", "U", "-", "0", "1">>

P100 == <<"P", "-", "1", "0", "0">>

P200 == <<"P", "-", "2", "0", "0">>

DASH == <<"-">>

TK01 == <<"T", "K", "0", "1">>

PU01 == <<"P", "U", "0", "1">>

DocLabels == {TK01L, PU01L, RELEASE, P100, P200, DASH}

DocRefTags == {TK01, PU01, P200}

Digits == {"0", "1", "2", "3", "4", "5", "6", "7", "8", "9"}

Alnum == Range(UpperCase) \cup Range(LowerCase) \cup Digits

\* The character class [a-zA-Z0-9].
IsAlnumOrDash(c) == c \in Alnum \/ c = "-"

IsAlnum(c) == c \in Alnum

\* re.sub(r'[^a-zA-Z0-9]', '', tag)
RemoveNonAlnum(s) == SelectSeq(s, IsAlnum)

\* The text normalize_tag makes of a text.
NormalText(s) == ToLower(RemoveNonAlnum(s))

\* What the user of the chat front end types: "pipe TK-01", "tank",
\* "valve", "TK-01", "p-100".
ChatQueries ==
    { <<"p", "i", "p", "e", " ", "T", "K", "-", "0", "1">>,
      <<"t", "a", "n", "k">>,
      <<"v", "a", "l", "v", "e">>, <<"T", "K", "-", "0", "1">>,
      <<"p", "-", "1", "0", "0">> }

\* similarity(a, b), computed once for every pair of texts the classifier
\* and the chat front end compare.
LoweredQueries ==
    {Strip(ToLower(t.text)) : t \in QueryTags}
    \cup {ToLower(l) : l \in DocLabels}
    \cup {NormalText(l) : l \in DocLabels \cup DocRefTags \cup ChatQueries}

LoweredRefs ==
    {ToLower(t) : t \in RefTags}
    \cup {ToLower(t) : t \in DocRefTags}
    \cup {NormalText(t) : t \in DocRefTags \cup DocLabels}

\* (Merging with the empty function makes the table an explicit one.)
RatioTable(pairs) == [p \in pairs |-> ratio(p[1], p[2])] @@ <<>>

SimilarityTable == RatioTable(LoweredQueries \X LoweredRefs)

similarity(a, b) ==
    IF <<a, b>> \in DOMAIN SimilarityTable THEN SimilarityTable[<<a, b>>]
    ELSE ratio(a, b)

\* `details`: None, or one reference record.
NoDetails == <<>>

NodeMatch(score) ==
    [category |-> "node", details |-> NoDetails, score |-> score]

\* {str(e.get("Tag", "")).lower(): e for e in records}: a dict keeps the
\* place of a key's first insertion and the value of its last.
DictPut(d, key, rec) ==
    IF \E k \in 1..Len(d) : d[k].key = key
    THEN [k \in 1..Len(d) |->
             IF d[k].key = key THEN [key |-> key, details |-> rec] ELSE d[k]]
    ELSE Append(d, [key |-> key, details |-> rec])

RECURSIVE TagDictFrom(_, _, _)
TagDictFrom(records, i, d) ==
    IF i > Len(records) THEN d
    ELSE TagDictFrom(records, i + 1,
                     DictPut(d, ToLower(records[i].Tag), records[i]))

TagDict(records) == TagDictFrom(records, 1, <<>>)

\* The one element of a set: Value({F(x) : x \in {e}}) is F(e), with e
\* evaluated once.
Value(S) == CHOOSE x \in S : TRUE

\* The inner loop of the fuzzy match over one table's dict.
RECURSIVE ScanDict(_, _, _, _, _)
ScanDict(cat_name, tag_dict, i, tag_lower, best) ==
    IF i > Len(tag_dict) THEN best
    ELSE ScanDict(cat_name, tag_dict, i + 1, tag_lower,
             Value({IF ScoreGreater(score, best.score)
                    THEN [category |-> cat_name,
                          details |-> <<tag_dict[i].details>>,
                          score |-> score]
                    ELSE best :
                    score \in {similarity(tag_lower, tag_dict[i].key)}}))

\* The outer loop: equipment, instrumentation, handvalve.
BestCandidate(tag_lower, pdata) ==
    ScanDict("handvalve", TagDict(pdata.HandValves), 1, tag_lower,
        ScanDict("instrumentation", TagDict(pdata.Instrumentation), 1,
            tag_lower,
            ScanDict("equipment", TagDict(pdata.Equipment), 1, tag_lower,
                     NodeMatch(Ratio(0, 1)))))

\* `if best["score"] >= threshold: return best`
AcceptAbove(best, thr) ==
    IF ScoreGreater(best.score, thr) THEN best ELSE NodeMatch(best.score)

Accept(best, thr) ==
    IF ScoreAtLeast(best.score, thr) THEN best ELSE NodeMatch(best.score)

\* `not isinstance(tag, str) or not tag.strip()`
IsBlankStringOnly(t) == t.type = "str" /\ Strip(t.text) = <<>>

IsBlank(t) == t.type # "str" \/ Strip(t.text) = <<>>

\* `for p_tag in all_pipeline_tags: if tag == p_tag`
IsPipelineTagLowered(t, keys) ==
    \E p_tag \in keys : ToLower(t.text) = ToLower(p_tag)

IsPipelineTag(t, keys) == \E p_tag \in keys : t.text = p_tag

\* What a call returns; `tag.lower()` on a value that is no string raises.
AttributeError ==
    [category |-> "AttributeError", details |-> NoDetails,
     score |-> Ratio(0, 1)]

find_best_match(t, keys, pdata, thr) ==
    IF IsBlank(t) THEN NodeMatch(Ratio(0, 1))
    ELSE IF t.type # "str" THEN AttributeError
    ELSE IF IsPipelineTag(t, keys)
         THEN [category |-> "pipeline", details |-> NoDetails,
               score |-> Ratio(1, 1)]
    ELSE Value({Accept(best, thr) :
                   best \in {Value({BestCandidate(tag_lower, pdata) :
                                    tag_lower \in {Strip(ToLower(t.text))}})}})

TableNames == {"Equipment", "Instrumentation", "HandValves"}

Placements == [table : TableNames, Tag : RefTags]

PlacementSeqs == UNION {[1..n -> Placements] : n \in 0..MaxRecs}

\* One table: its records in order; `row` stands for the record's other
\* fields.
TableOf(ps, name) ==
    LET mine == SelectSeq(ps, LAMBDA x : x.table = name)
    IN  [k \in 1..Len(mine) |-> [Tag |-> mine[k].Tag, row |-> k]]

ProcessData(ps) ==
    [Equipment |-> TableOf(ps, "Equipment"),
     Instrumentation |-> TableOf(ps, "Instrumentation"),
     HandValves |-> TableOf(ps, "HandValves")]

\* The document is loaded; no tag has been resolved yet.
ResolveInit ==
    /\ all_pipeline_tags \in KeySets
    /\ \E ps \in PlacementSeqs : process_data = ProcessData(ps)
    /\ threshold \in Thresholds
    /\ tag = PyNone
    /\ match = <<>>
    /\ pc = "loaded"
    /\ connections = <<>>
    /\ FlowIdle
    /\ ExtractIdle
    /\ NormalizeIdle
    /\ DocumentIdle
    /\ ChatIdle

\* One call of find_best_match. The function reads the loaded document and
\* writes nothing, so a call does not depend on the calls before it.
Resolve ==
    /\ pc = "loaded"
    /\ \E t \in QueryTags :
           /\ tag' = t
           /\ match' = find_best_match(t, all_pipeline_tags, process_data,
                                       threshold)
    /\ pc' = "resolved"
    /\ UNCHANGED <<all_pipeline_tags, process_data, threshold,
                   outsideResolve>>

ResolveNext == Resolve

SpecResolve == ResolveInit /\ [][ResolveNext]_vars

\* ------------------------------------------------------------ normalize_tag

\* Longest text handed to normalize_tag, the spec's example apart.
MaxTagLen == 3

\* Values that are no strings: None and 5 above, ["a"] and {"a": 1} here.
PyList == [type |-> "list", text |-> <<>>]

PyDict == [type |-> "dict", text |-> <<>>]

\* normalize_tag of the pipeline stage: a value that is no string is
\* returned as it is.
normalize_tag(t) ==
    IF t.type # "str" THEN t
    ELSE PyStr(ToLower(RemoveNonAlnum(t.text)))

\* normalize_tag of the chat front end: a value that is no string gives "".
chat_normalize_tag(t) ==
    IF t.type # "str" THEN PyStr(<<>>)
    ELSE PyStr(ToLower(RemoveNonAlnum(t.text)))

\* The texts normalize_tag is tried on, and for each text its respellings:
\* one letter in the other case, one separator more, one separator less.
NormChars == {"H", "h", "4", "-"}

Separators == {"-", " ", ".", "+-"}

NormTexts == UNION {[1..n -> NormChars] : n \in 0..MaxTagLen}

SwapCase(c) ==
    IF \E k \in 1..Len(UpperCase) : UpperCase[k] = c
    THEN LowerCase[CHOOSE k \in 1..Len(UpperCase) : UpperCase[k] = c]
    ELSE IF \E k \in 1..Len(LowerCase) : LowerCase[k] = c
    THEN UpperCase[CHOOSE k \in 1..Len(LowerCase) : LowerCase[k] = c]
    ELSE c

InsertAt(s, k, c) == SubSeq(s, 1, k - 1) \o <<c>> \o SubSeq(s, k, Len(s))

RemoveAt(s, k) == SubSeq(s, 1, k - 1) \o SubSeq(s, k + 1, Len(s))

Respellings(s) ==
    {s}
    \cup {[s EXCEPT ![k] = SwapCase(s[k])] : k \in 1..Len(s)}
    \cup {InsertAt(s, k, c) : k \in 1..(Len(s) + 1), c \in Separators}
    \cup {RemoveAt(s, k) : k \in {j \in 1..Len(s) : s[j] \in Separators}}

HVMKH441 == <<"H", "V", "-", "M", "K", ".", "H", "4", "4", "1">>

hvmkh441 == <<"h", "v", "m", "k", "h", "4", "4", "1">>

NormInputs ==
    UNION {{<<PyStr(s), PyStr(v)>> : v \in Respellings(s)} : s \in NormTexts}
    \cup {<<PyStr(HVMKH441), PyStr(hvmkh441)>>}
    \cup {<<x, x>> : x \in {PyNone, PyInt, PyList, PyDict}}

\* A value and a respelling of it; nothing has been normalized yet.
NormalizeInit ==
    /\ \E p \in NormInputs : norm_arg = p[1] /\ norm_variant = p[2]
    /\ norm_calls = <<>>
    /\ pc = "tags"
    /\ connections = <<>>
    /\ FlowIdle
    /\ ExtractIdle
    /\ ResolveIdle
    /\ DocumentIdle
    /\ ChatIdle

\* The argument of the next call: the value, then the result of the first
\* call, then the respelling.
NextArg ==
    IF norm_calls = <<>> THEN norm_arg
    ELSE IF Len(norm_calls) = 1 THEN norm_calls[1].result
    ELSE norm_variant

\* One call of the pipeline stage's normalize_tag.
StageNormalize ==
    /\ pc = "tags"
    /\ Len(norm_calls) < 3
    /\ norm_calls # <<>> => norm_calls[1].copy = "stage"
    /\ norm_calls' = Append(norm_calls,
           [copy |-> "stage", arg |-> NextArg,
            result |-> normalize_tag(NextArg)])
    /\ UNCHANGED <<norm_arg, norm_variant, pc, outsideNormalize>>

\* One call of the chat front end's normalize_tag.
ChatNormalize ==
    /\ pc = "tags"
    /\ Len(norm_calls) < 3
    /\ norm_calls # <<>> => norm_calls[1].copy = "chat"
    /\ norm_calls' = Append(norm_calls,
           [copy |-> "chat", arg |-> NextArg,
            result |-> chat_normalize_tag(NextArg)])
    /\ UNCHANGED <<norm_arg, norm_variant, pc, outsideNormalize>>

NormalizeNext ==
    \/ StageNormalize
    \/ ChatNormalize

SpecNormalize == NormalizeInit /\ [][NormalizeNext]_vars

\* ------------- merge_pid_core, normalize_merged_pid, classify_tags_preserve_flow

\* Most segments of the first pipeline of a document.
MaxFlowSegs == 2

\* threshold=0.6
DefaultThreshold == Ratio(6, 10)

\* build_flow_by_following_sequence as a function of the segment list: the
\* while loop, from the flow and the used indices it has reached.
RECURSIVE Stitch(_, _, _)
Stitch(conns, used, f) ==
    IF Len(used) >= Len(conns) THEN f
    ELSE LET e == Extension(conns, used, f)
         IN  IF e.kind = "tail"
             THEN Stitch(conns, Append(used, e.idx),
                         Append(f, TailNode(conns[e.idx], Last(f))))
             ELSE IF e.kind = "head"
             THEN Stitch(conns, Append(used, e.idx),
                         <<HeadNode(conns[e.idx], f[1])>> \o f)
             ELSE AbsorbFlow(conns, used, f, 1)

build_flow_by_following_sequence(conns) ==
    IF Len(conns) = 0 THEN <<>>
    ELSE IF Len(conns) = 1 THEN SingleFlow(conns)
    ELSE Stitch(conns, <<1>>, SeedFlow(conns))

\* The entry of one pipeline tag in the flow file: what
\* extract_complete_pipeline_flows collects and save_flows_to_json writes.
PipelineFlow(key, conns) ==
    LET complete_flow == build_flow_by_following_sequence(conns)
    IN  [pipeline_tag |-> PyStr(key),
         start |-> IF complete_flow # <<>>
                   THEN PyStr(complete_flow[1]) ELSE PyNone,
         end |-> IF complete_flow # <<>>
                 THEN PyStr(Last(complete_flow)) ELSE PyNone,
         complete_flow |->
             [k \in 1..Len(complete_flow) |-> PyStr(complete_flow[k])],
         total_connections |-> Len(conns),
         flow_length |-> Len(complete_flow),
         all_connections |->
             [k \in 1..Len(conns) |->
                 [from |-> PyStr(conns[k].from), to |-> PyStr(conns[k].to)]]]

\* The segments of the documents: a chain TK-01, PU-01, RELEASE, a segment
\* back, segments that name the pipeline P-200, and segments with the
\* label "-".
DocSegments ==
    { [from |-> TK01L, to |-> PU01L], [from |-> PU01L, to |-> RELEASE],
      [from |-> PU01L, to |-> TK01L], [from |-> TK01L, to |-> P200],
      [from |-> P200, to |-> PU01L], [from |-> DASH, to |-> TK01L],
      [from |-> PU01L, to |-> DASH] }

\* The segments of P-100: a tag is in the flow file only with a non-empty
\* list (`if connections:`).
DocSegLists == UNION {[1..n -> DocSegments] : n \in 1..MaxFlowSegs}

\* The segments of P-200; none when the document has no such pipeline.
SecondPipelines ==
    { <<>>, << [from |-> TK01L, to |-> RELEASE] >>,
      << [from |-> DASH, to |-> P100] >> }

\* The reference tables of the documents.
ProcessTables ==
    { [Equipment |-> << [Tag |-> TK01, row |-> 1], [Tag |-> PU01, row |-> 2] >>,
       Instrumentation |-> <<>>, HandValves |-> <<>>],
      [Equipment |-> << [Tag |-> TK01, row |-> 1], [Tag |-> PU01, row |-> 2],
                        [Tag |-> P200, row |-> 3] >>,
       Instrumentation |-> <<>>, HandValves |-> <<>>],
      [Equipment |-> << [Tag |-> TK01, row |-> 1] >>,
       Instrumentation |-> << [Tag |-> PU01, row |-> 1] >>,
       HandValves |-> << [Tag |-> P200, row |-> 1] >>] }

\* merge_pid_core: the flow file and the three tables in one document.
MergedDocument(conns1, conns2, tables) ==
    [complete_pipeline_flows |->
         [key \in (IF conns2 = <<>> THEN {P100} ELSE {P100, P200}) |->
             PipelineFlow(key, IF key = P100 THEN conns1 ELSE conns2)],
     process_data |-> tables]

MergedDocuments ==
    {MergedDocument(c1, c2, t) :
         c1 \in DocSegLists, c2 \in SecondPipelines, t \in ProcessTables}

\* normalize_merged_pid. A string that is a pipeline key is left as it is,
\* any other string is normalized; a value that is no string and no
\* container is returned unchanged.
NormalizeStringAlways(v, keys) == normalize_tag(v)

NormalizeString(v, keys) ==
    IF v.type = "str"
    THEN IF v.text \in keys THEN v ELSE normalize_tag(v)
    ELSE v

\* recursive_normalize on the entry of one pipeline: `pipeline_tag` is a
\* skipped key, the two counts are numbers.
recursive_normalize(pipe_info, keys) ==
    [pipeline_tag |-> pipe_info.pipeline_tag,
     start |-> NormalizeString(pipe_info.start, keys),
     end |-> NormalizeString(pipe_info.end, keys),
     complete_flow |->
         [k \in 1..Len(pipe_info.complete_flow) |->
             NormalizeString(pipe_info.complete_flow[k], keys)],
     total_connections |-> pipe_info.total_connections,
     flow_length |-> pipe_info.flow_length,
     all_connections |->
         [k \in 1..Len(pipe_info.all_connections) |->
             [from |-> NormalizeString(pipe_info.all_connections[k].from,
                                       keys),
              to |-> NormalizeString(pipe_info.all_connections[k].to,
                                     keys)]]]

normalize_tag_in_records(records, keys) ==
    [k \in 1..Len(records) |->
        IF records[k].Tag \notin keys
        THEN [records[k] EXCEPT !.Tag = normalize_tag(PyStr(@)).text]
        ELSE records[k]]

normalize_merged_pid(data) ==
    LET keys == DOMAIN data.complete_pipeline_flows
    IN  [complete_pipeline_flows |->
             [pipe_tag \in keys |->
                 recursive_normalize(data.complete_pipeline_flows[pipe_tag],
                                     keys)],
         process_data |->
             [Equipment |->
                  normalize_tag_in_records(data.process_data.Equipment, keys),
              Instrumentation |->
                  normalize_tag_in_records(data.process_data.Instrumentation,
                                           keys),
              HandValves |->
                  normalize_tag_in_records(data.process_data.HandValves,
                                           keys)]]

\* classify_tags_preserve_flow. A resolved label: {tag, category, details}.
ClassifiedNodeNoKeys(t, keys, pdata, thr) ==
    LET m == find_best_match(t, {}, pdata, thr)
    IN  [type |-> "dict", tag |-> t, category |-> m.category,
         details |-> m.details]

ClassifiedNode(t, keys, pdata, thr) ==
    Value({[type |-> "dict", tag |-> t, category |-> m.category,
            details |-> m.details] :
           m \in {find_best_match(t, keys, pdata, thr)}})

\* `if key in new_pipe and new_pipe[key]`: None and "" are false.
Truthy(v) == v.type = "str" /\ v.text # <<>>

EnrichEnd(v, keys, pdata, thr) ==
    IF Truthy(v) THEN ClassifiedNode(v, keys, pdata, thr) ELSE v

\* The loop over complete_flow.
EnrichFlowDistinct(flow_list, keys, pdata, thr) ==
    LET firsts == SelectSeq([k \in 1..Len(flow_list) |-> k],
                     LAMBDA k : \A j \in 1..(k - 1) :
                                    flow_list[j] # flow_list[k])
    IN  [k \in 1..Len(firsts) |->
            ClassifiedNode(flow_list[firsts[k]], keys, pdata, thr)]

EnrichFlow(flow_list, keys, pdata, thr) ==
    [k \in 1..Len(flow_list) |->
        ClassifiedNode(flow_list[k], keys, pdata, thr)]

\* The loop over all_connections.
EnrichConnections(conns, keys, pdata, thr) ==
    [k \in 1..Len(conns) |->
        [from |-> ClassifiedNode(conns[k].from, keys, pdata, thr),
         to |-> ClassifiedNode(conns[k].to, keys, pdata, thr)]]

\* json.loads(json.dumps(pipe_info)) copies an entry: strings, numbers,
\* lists and dicts with string keys come back equal.
classify_tags_preserve_flow(data, thr) ==
    LET flow_data == data.complete_pipeline_flows
        keys == DOMAIN flow_data
        pdata == data.process_data
    IN  [complete_pipeline_flows |->
             [pipe_tag \in keys |->
                 [flow_data[pipe_tag] EXCEPT
                     !.start = EnrichEnd(@, keys, pdata, thr),
                     !.end = EnrichEnd(@, keys, pdata, thr),
                     !.complete_flow = EnrichFlow(@, keys, pdata, thr),
                     !.all_connections =
                         EnrichConnections(@, keys, pdata, thr)]],
         process_data |-> pdata]

\* The merged document has been written; the later documents have not.
DocumentInit ==
    /\ merged_json \in MergedDocuments
    /\ normalized_json = <<>>
    /\ classified_json = <<>>
    /\ json_path = <<>>
    /\ pc = "merged"
    /\ connections = <<>>
    /\ FlowIdle
    /\ ExtractIdle
    /\ ResolveIdle
    /\ NormalizeIdle
    /\ ChatIdle

\* normalize_merged_pid reads the merged document and writes its own.
NormalizeMergedPid ==
    /\ pc = "merged"
    /\ normalized_json' = normalize_merged_pid(merged_json)
    /\ pc' = "normalized"
    /\ UNCHANGED <<merged_json, classified_json, json_path, outsideDocument>>

\* classify_tags_preserve_flow(json_path): on the merged document, or on
\* the normalized document once it is written.
ClassifyTags ==
    /\ pc \in {"merged", "normalized"}
    /\ json_path' = (IF pc = "merged" THEN "merged_pid_core.json"
                     ELSE "normalized_merged_pid2.json")
    /\ classified_json' =
           classify_tags_preserve_flow(
               IF pc = "merged" THEN merged_json ELSE normalized_json,
               DefaultThreshold)
    /\ pc' = "classified"
    /\ UNCHANGED <<merged_json, normalized_json, outsideDocument>>

DocumentNext ==
    \/ NormalizeMergedPid
    \/ ClassifyTags

SpecClassify == DocumentInit /\ [][DocumentNext]_vars

\* ------------------------------------------------- main.py: the retrieval

\* `needle in hay` on strings.
Contains(needle, hay) ==
    \E i \in 0..(Len(hay) - Len(needle)) :
        SubSeq(hay, i + 1, i + Len(needle)) = needle

PipelineWords ==
    { <<"p", "i", "p", "e", "l", "i", "n", "e">>,
      <<"l", "i", "n", "e">>,
      <<"f", "l", "o", "w", " ", "p", "a", "t", "h">>,
      <<"p", "i", "p", "e">> }

EquipmentWords ==
    { <<"e", "q", "u", "i", "p", "m", "e", "n", "t">>,
      <<"p", "u", "m", "p">>,
      <<"t", "a", "n", "k">>,
      <<"v", "e", "s", "s", "e", "l">>,
      <<"r", "e", "a", "c", "t", "o", "r">> }

InstrumentWords ==
    { <<"i", "n", "s", "t", "r", "u", "m", "e", "n", "t">>,
      <<"v", "a", "l", "v", "e">>,
      <<"c", "o", "n", "t", "r", "o", "l", "l", "e", "r">>,
      <<"s", "e", "n", "s", "o", "r">> }

\* any(word in q for word in [...])
AnyWordIn(words, q) == \E word \in words : Contains(word, q)

\* threshold=0.6 of find_best_tag_matches and find_pipeline_matches,
\* threshold=0.7 of find_pipelines_for_tag.
MatchThreshold == Ratio(6, 10)

IndexThreshold == Ratio(7, 10)

\* The records of a table whose Tag is in the query or similar to it.
find_best_tag_matches(query, data_list, thr) ==
    LET q_raw == ToLower(query)
        q_norm == chat_normalize_tag(PyStr(query)).text
    IN  SelectSeq(data_list,
            LAMBDA item :
                LET tag_lower == ToLower(item.Tag)
                    tag_norm == chat_normalize_tag(PyStr(item.Tag)).text
                IN  \/ tag_lower # <<>> /\ Contains(tag_lower, q_raw)
                    \/ /\ tag_norm # <<>>
                       /\ ScoreAtLeast(similarity(q_norm, tag_norm), thr))

\* The keys of the pipelines whose tag is in the query or similar to it.
find_pipeline_matches(query, pipelines, thr) ==
    LET q_raw == ToLower(query)
        q_norm == chat_normalize_tag(PyStr(query)).text
    IN  {pipe_tag \in DOMAIN pipelines :
            \/ Contains(ToLower(pipe_tag), q_raw)
            \/ ScoreAtLeast(
                   similarity(q_norm,
                              chat_normalize_tag(PyStr(pipe_tag)).text),
                   thr)}

\* The normalized tags of one pipeline's complete_flow: each step's tag and
\* the Tag of its details, unless empty or missing.
IndexedTags(pipe_info) ==
    UNION {
        {chat_normalize_tag(t).text :
            t \in {u \in {step.tag} \cup {PyStr(d.Tag) : d \in Range(step.details)} :
                      u.type = "str" /\ u.text # <<>>}} :
        step \in Range(pipe_info.complete_flow)}

\* build_tag_index: normalized tag to the set of pipelines that hold it.
build_tag_index(pipelines) ==
    [norm \in UNION {IndexedTags(pipelines[p]) : p \in DOMAIN pipelines} |->
        {p \in DOMAIN pipelines : norm \in IndexedTags(pipelines[p])}]

\* find_pipelines_for_tag: the keys of the pipelines it returns.
find_pipelines_for_tag(tag_query, pipelines, index, thr) ==
    IF tag_query = <<>> THEN {}
    ELSE LET q_norm == chat_normalize_tag(PyStr(tag_query)).text
             direct == IF q_norm \in DOMAIN index THEN index[q_norm] ELSE {}
             near == {t_norm \in DOMAIN index :
                         \/ Contains(t_norm, q_norm)
                         \/ Contains(q_norm, t_norm)
                         \/ ScoreAtLeast(similarity(q_norm, t_norm), thr)}
         IN  IF q_norm = <<>> THEN {}
             ELSE (direct \cup UNION {index[t_norm] : t_norm \in near})
                  \cap DOMAIN pipelines

\* A dict cut down to some of its keys, and dict.update.
Restrict(d, keys) == [k \in keys |-> d[k]]

PythonUpdate(d, e) ==
    [k \in DOMAIN d \cup DOMAIN e |-> IF k \in DOMAIN e THEN e[k] ELSE d[k]]

\* existing_tags = {e.get("Tag") for e in context["equipment"]}
ExistingTagsNone(equipment) == {}

ExistingTags(equipment) == {e.Tag : e \in Range(equipment)}

\* The loop over the start and end of the matched pipelines. `node.get` on
\* a start or end that is a plain string raises AttributeError; what was
\* appended before stays appended.
RECURSIVE Pull(_, _, _, _)
Pull(nodes, i, equipment, existing_tags) ==
    IF i > Len(nodes) THEN [equipment |-> equipment, raised |-> FALSE]
    ELSE LET node == nodes[i]
         IN  IF node.type # "dict"
             THEN [equipment |-> equipment, raised |-> TRUE]
             ELSE IF /\ node.category = "equipment"
                     /\ node.details # NoDetails
                     /\ node.details[1].Tag # <<>>
                     /\ node.details[1].Tag \notin existing_tags
                  THEN Pull(nodes, i + 1,
                            Append(equipment, node.details[1]),
                            existing_tags \cup {node.details[1].Tag})
                  ELSE Pull(nodes, i + 1, equipment, existing_tags)

\* The start and the end of each pipeline of the context, in the order the
\* dict gives them.
EndNodes(pipes, order) ==
    LET mine == SelectSeq(order, LAMBDA k : k \in DOMAIN pipes)
    IN  [n \in 1..(2 * Len(mine)) |->
            IF n % 2 = 1 THEN pipes[mine[(n + 1) \div 2]].start
            ELSE pipes[mine[n \div 2]].end]

\* The branch build_local_context takes on the lowered query.
Branch(q) ==
    IF AnyWordIn(PipelineWords, q) THEN "pipelines"
    ELSE IF AnyWordIn(EquipmentWords, q) THEN "equipment"
    ELSE IF AnyWordIn(InstrumentWords, q) THEN "instruments"
    ELSE "search"

\* The three sections of the context before the pipelines are looked at:
\* the whole table for a category word, the matching records for a tag.
ContextSections(query, pdata) ==
    LET branch == Branch(ToLower(query))
    IN  [equipment |->
             IF branch = "equipment" THEN pdata.Equipment
             ELSE IF branch = "search"
                  THEN find_best_tag_matches(query, pdata.Equipment,
                                             MatchThreshold)
                  ELSE <<>>,
         instrumentation |->
             IF branch = "instruments" THEN pdata.Instrumentation
             ELSE IF branch = "search"
                  THEN find_best_tag_matches(query, pdata.Instrumentation,
                                             MatchThreshold)
                  ELSE <<>>,
         handvalves |->
             IF branch = "instruments" THEN pdata.HandValves
             ELSE IF branch = "search"
                  THEN find_best_tag_matches(query, pdata.HandValves,
                                             MatchThreshold)
                  ELSE <<>>]

\* The keys of context["pipelines"] before the merge.
MatchedPipelines(query, pipelines) ==
    LET branch == Branch(ToLower(query))
    IN  IF branch = "pipelines" THEN DOMAIN pipelines
        ELSE IF branch = "search"
             THEN find_pipeline_matches(query, pipelines, MatchThreshold)
             ELSE {}

\* extra_pipes: the pipelines that hold the query or the Tag of a record of
\* the three sections.
ExtraPipes(query, sections, pipelines, index) ==
    Restrict(pipelines,
        find_pipelines_for_tag(query, pipelines, index, IndexThreshold)
        \cup UNION {
            find_pipelines_for_tag(item.Tag, pipelines, index,
                                   IndexThreshold) :
            item \in Range(sections.equipment)
                     \cup Range(sections.instrumentation)
                     \cup Range(sections.handvalves)})

\* `if context["pipelines"]: context["pipelines"].update(extra_pipes)`,
\* `else: context["pipelines"] = extra_pipes`.
MergedPipelines(pipelines, matched, extra_pipes) ==
    IF matched # {}
    THEN PythonUpdate(Restrict(pipelines, matched), extra_pipes)
    ELSE extra_pipes

\* `if context["pipelines"]:` and the loop that pulls the equipment in.
PulledEquipment(equipment, merged, order) ==
    IF DOMAIN merged # {}
    THEN Pull(EndNodes(merged, order), 1, equipment, ExistingTags(equipment))
    ELSE [equipment |-> equipment, raised |-> FALSE]

\* What the call leaves behind: the context, whether it raised, and the
\* globals. In the branch "pipelines" context["pipelines"] is the dict
\* PIPELINES itself, in the branch "equipment" context["equipment"] is the
\* list PROCESS_DATA["Equipment"] itself: update and append on the context
\* then act on the global.
LocalContext(query, pipelines, pdata, sections, merged, pulled) ==
    [raised |-> pulled.raised,
     context |->
         [equipment |-> pulled.equipment,
          instrumentation |-> sections.instrumentation,
          handvalves |-> sections.handvalves,
          pipelines |-> merged],
     PIPELINES |->
         IF Branch(ToLower(query)) = "pipelines" /\ DOMAIN pipelines # {}
         THEN merged
         ELSE pipelines,
     PROCESS_DATA |->
         IF Branch(ToLower(query)) = "equipment"
         THEN [pdata EXCEPT !.Equipment = pulled.equipment]
         ELSE pdata]

\* build_local_context, each step evaluated once.
build_local_context(query, pipelines, pdata, index, order) ==
    Value({
        Value({
            Value({
                LocalContext(query, pipelines, pdata, sections, merged,
                             pulled) :
                pulled \in {PulledEquipment(sections.equipment, merged,
                                            order)}}) :
            merged \in {MergedPipelines(
                           pipelines, matched,
                           ExtraPipes(query, sections, pipelines, index))}}) :
        sections \in {ContextSections(query, pdata)},
        matched \in {MatchedPipelines(query, pipelines)}})

\* ------------------------------------------------- main.py: the chat

MaxTurns == 2

\* The flow segments of P-100 in the documents the chat is asked about.
ChatSegLists ==
    { << [from |-> TK01L, to |-> PU01L], [from |-> PU01L, to |-> RELEASE] >>,
      << [from |-> TK01L, to |-> P200], [from |-> P200, to |-> PU01L] >>,
      << [from |-> DASH, to |-> TK01L] >> }

\* Their reference tables: all tags in Equipment, or one tag in each table.
ChatTables ==
    {t \in ProcessTables : Len(t.Equipment) # 3}

ChatMerged ==
    {MergedDocument(c1, c2, t) :
         c1 \in ChatSegLists, c2 \in SecondPipelines, t \in ChatTables}

\* classified_pipeline_tags2.json as the pipeline writes it, with and
\* without the normalizer before the classifier.
ChatDocuments ==
    {classify_tags_preserve_flow(d, DefaultThreshold) :
        d \in ChatMerged \cup {normalize_merged_pid(m) : m \in ChatMerged}}

\* The orders in which a dict or a set of these keys can be walked.
KeyOrders(keys) ==
    {o \in [1..Cardinality(keys) -> keys] :
        \A i, j \in DOMAIN o : o[i] = o[j] => i = j}

\* One run of the script on a document, computed once for every document:
\* the index it builds and, for every input and order, what
\* build_local_context leaves behind.
ScriptRuns ==
    [d \in ChatDocuments |->
        Value({[index |-> index,
                built |->
                    [t \in ChatQueries
                           \X KeyOrders(DOMAIN d.complete_pipeline_flows) |->
                        build_local_context(t[1], d.complete_pipeline_flows,
                                            d.process_data, index, t[2])]
                    @@ <<>>] :
               index \in {build_tag_index(d.complete_pipeline_flows)}})]
    @@ <<>>

UserMessage(text) == [role |-> "user", content |-> text]

AssistantMessage(text) == [role |-> "assistant", content |-> text]

\* response.choices[0].message.content, and the reply of the except branch.
Replies == { <<"answer">>, <<"Error calling GPT">> }

\* The first run of the script: the document is loaded, the index is built,
\* the session has an empty chat_history, and there is no input yet.
ChatInit ==
    /\ classified_json \in ChatDocuments
    /\ merged_json = <<>>
    /\ normalized_json = <<>>
    /\ json_path = <<>>
    /\ PIPELINES = classified_json.complete_pipeline_flows
    /\ PROCESS_DATA = classified_json.process_data
    /\ TAG_TO_PIPELINES = build_tag_index(PIPELINES)
    /\ chat_history = <<>>
    /\ context = <<>>
    /\ pc = "chat"
    /\ connections = <<>>
    /\ FlowIdle
    /\ ExtractIdle
    /\ ResolveIdle
    /\ NormalizeIdle

\* One run of the script with an input: the document is loaded again and
\* the index rebuilt, the user message is appended, build_local_context
\* runs outside the try, the completion call answers or raises, and the
\* reply is appended. An exception of build_local_context ends the run.
ChatTurn ==
    /\ pc = "chat"
    /\ Len(chat_history) < 2 * MaxTurns
    /\ \E user_input \in ChatQueries, reply \in Replies,
          order \in KeyOrders(DOMAIN classified_json.complete_pipeline_flows) :
          \E run \in {ScriptRuns[classified_json]} :
          \E built \in {run.built[<<user_input, order>>]} :
              /\ TAG_TO_PIPELINES' = run.index
              /\ PIPELINES' = built.PIPELINES
              /\ PROCESS_DATA' = built.PROCESS_DATA
              /\ IF built.raised
                 THEN /\ chat_history' =
                             Append(chat_history, UserMessage(user_input))
                      /\ context' = context
                 ELSE /\ chat_history' =
                             chat_history
                             \o << UserMessage(user_input),
                                   AssistantMessage(reply) >>
                      /\ context' = built.context
    /\ UNCHANGED <<pc, documentVars, outsideChat>>

\* The reset button: chat_history is emptied and the script runs again,
\* without an input, so that no context is built.
ResetChat ==
    /\ pc = "chat"
    /\ chat_history' = <<>>
    /\ context' = <<>>
    /\ PIPELINES' = classified_json.complete_pipeline_flows
    /\ PROCESS_DATA' = classified_json.process_data
    /\ TAG_TO_PIPELINES' =
           build_tag_index(classified_json.complete_pipeline_flows)
    /\ UNCHANGED <<pc, documentVars, outsideChat>>

ChatNext ==
    \/ ChatTurn
    \/ ResetChat

SpecChat == ChatInit /\ [][ChatNext]_vars

\* ------------------------------------------------- flow builder: the claims

\* The loop's condition holds: an iteration of the while loop is about to run.
InLoopBody == pc = "loop" /\ Len(used_connections) < Len(connections)

Unused == {i \in 1..Len(connections) : i \notin Range(used_connections)}

TailCandidates ==
    {i \in Unused : \/ connections[i].from = Last(flow)
                    \/ connections[i].to = Last(flow)}

HeadCandidates ==
    {i \in Unused : \/ connections[i].to = flow[1]
                    \/ connections[i].from = flow[1]}

Seg(a, b) == [from |-> a, to |-> b]

\* C1 (step): whenever an unused segment touches the last node, the
\* iteration consumes the one of least index among them, and only it:
\* its `to` is appended when its `from` is the last node, else its `from`;
\* this happens whatever segments touch the first node.
C1_TailStep ==
    (InLoopBody /\ TailCandidates # {}) =>
        LET m == Min(TailCandidates)
            node == IF connections[m].from = Last(flow)
                    THEN connections[m].to ELSE connections[m].from
        IN  /\ flow' = Append(flow, node)
            /\ used_connections' = Append(used_connections, m)

\* C1 (example): [{A,B},{B,C}] yields [A,B,C] for distinct A, B, C.
C1_Example ==
    \A a, b, c \in Labels :
        (/\ a # b /\ b # c /\ a # c
         /\ pc = "done"
         /\ connections = <<Seg(a, b), Seg(b, c)>>) => flow = <<a, b, c>>

\* C1: tail extension takes the first unused segment in list order that
\* touches the last node, only that one, before any head extension; and
\* [{A,B},{B,C}] yields [A,B,C].
C1_TailExtension == []C1_Example /\ [][C1_TailStep]_vars

\* C1 witness: segments 2 and 3 both touch the last node B and segment 2
\* also touches the first node A; segment 2 was consumed at the tail.
C1_Witness ==
    /\ connections = <<Seg("A", "B"), Seg("B", "A"), Seg("B", "C")>>
    /\ used_connections = <<1, 2>>
    /\ flow = <<"A", "B", "A">>

\* C2 (step): when no unused segment touches the last node and some touch
\* the first node, the one of least index is consumed and its other
\* endpoint becomes the new first node.
C2_HeadStep ==
    (InLoopBody /\ TailCandidates = {} /\ HeadCandidates # {}) =>
        LET m == Min(HeadCandidates)
            node == IF connections[m].to = flow[1]
                    THEN connections[m].from ELSE connections[m].to
        IN  /\ flow' = <<node>> \o flow
            /\ used_connections' = Append(used_connections, m)

\* C2 (example): [{B,C},{A,B}] yields exactly [A,B,C].
C2_Example ==
    \A a, b, c \in Labels :
        (/\ a # b /\ b # c /\ a # c
         /\ pc = "done"
         /\ connections = <<Seg(b, c), Seg(a, b)>>) => flow = <<a, b, c>>

\* C2: head extension takes the first unused segment in list order that
\* touches the first node, when none touches the last node, and inserts
\* its other endpoint at position 0; [{B,C},{A,B}] yields [A,B,C].
C2_HeadExtension == []C2_Example /\ [][C2_HeadStep]_vars

\* C2 witness: segments 2 and 3 both touch the first node B, none touches
\* the last node C; segment 2 was consumed at the head.
C2_Witness ==
    /\ connections = <<Seg("B", "C"), Seg("A", "B"), Seg("D", "B")>>
    /\ used_connections = <<1, 2>>
    /\ flow = <<"A", "B", "C">>

\* The endpoints of the unused segments in list order, from before to:
\* the place of a label's first occurrence among them.
FirstPlace(label) ==
    Min({2 * i - 1 : i \in {u \in Unused : connections[u].from = label}}
        \cup {2 * i : i \in {u \in Unused : connections[u].to = label}})

NewLabels ==
    {l \in Labels : /\ ~ InFlow(l, flow)
                    /\ \E i \in Unused : l \in {connections[i].from,
                                               connections[i].to}}

\* C3 (step): an iteration that finds no segment touching either end
\* appends the labels of the unused segments that are not in the flow, once
\* each, in the order of their first occurrence (from before to, in list
\* order), marks every unused segment used, in list order, and ends the loop.
C3_AbsorbStep ==
    (InLoopBody /\ TailCandidates = {} /\ HeadCandidates = {}) =>
        /\ pc' = "done"
        /\ Len(flow') = Len(flow) + Cardinality(NewLabels)
        /\ SubSeq(flow', 1, Len(flow)) = flow
        /\ {flow'[k] : k \in Len(flow) + 1 .. Len(flow')} = NewLabels
        /\ \A j, k \in Len(flow) + 1 .. Len(flow') :
               j < k => FirstPlace(flow'[j]) < FirstPlace(flow'[k])
        /\ Len(used_connections') = Len(connections)
        /\ SubSeq(used_connections', 1, Len(used_connections))
               = used_connections
        /\ \A j, k \in Len(used_connections) + 1 .. Len(connections) :
               /\ used_connections'[j] \in Unused
               /\ j < k => used_connections'[j] < used_connections'[k]

\* C3 (after): once the function has returned nothing is extended.
C3_NoStepAfter ==
    pc = "done" => /\ flow' = flow
                   /\ used_connections' = used_connections
                   /\ pc' = "done"

\* C3: the disconnected-segment fallback absorbs every unused segment in
\* the first iteration without an extension and ends the loop; no tail or
\* head extension follows.
C3_Fallback == [][C3_AbsorbStep /\ C3_NoStepAfter]_vars

\* C3 witness: after the fallback on [{A,B},{C,D},{D,C}] the segments
\* {C,D} and {D,C} chain to each other and {D,C} touches the new last node.
C3_Witness ==
    /\ connections = <<Seg("A", "B"), Seg("C", "D"), Seg("D", "C")>>
    /\ pc = "done"
    /\ used_connections = <<1, 2, 3>>
    /\ flow = <<"A", "B", "C", "D">>

\* C4 (state): no index is used twice, and the iterations begun are fewer
\* than the segments, each having retired a segment.
C4_Bounded ==
    /\ \A j, k \in 1..Len(used_connections) :
           j # k => used_connections[j] # used_connections[k]
    /\ Range(used_connections) \subseteq 1..Len(connections)
    /\ Len(connections) < 2 => iters = 0
    /\ Len(connections) >= 2 => iters <= Len(connections) - 1
    /\ pc # "start" /\ Len(connections) >= 2 =>
           Len(used_connections) >= iters + 1

\* C4 (step): an iteration adds an index that was not used, or breaks.
C4_Progress ==
    iters' = iters + 1 =>
        \/ pc' = "done"
        \/ \E i \in Unused : used_connections' = Append(used_connections, i)

\* C4: the while loop ends after at most len(connections) - 1 iterations on
\* every segment list: each iteration retires an unused segment or breaks.
C4_Termination == []C4_Bounded /\ [][C4_Progress]_vars

\* C4 witness: a list with a cycle and a self-loop, after its last iteration.
C4_Witness ==
    /\ connections = <<Seg("A", "B"), Seg("B", "A"), Seg("A", "A")>>
    /\ pc = "done"
    /\ iters = 2
    /\ flow = <<"A", "B", "A", "A">>

\* C5: the empty list yields the empty flow, a single segment yields
\* [from, to], also when from = to.
C5_EmptyAndSingle ==
    pc = "done" =>
        /\ Len(connections) = 0 => flow = <<>>
        /\ Len(connections) = 1 =>
               /\ Len(flow) = 2
               /\ flow[1] = connections[1].from
               /\ flow[2] = connections[1].to

\* C5 witness: a single self-loop segment has been returned as [A, A].
C5_Witness ==
    /\ pc = "done"
    /\ connections = <<Seg("A", "A")>>
    /\ flow = <<"A", "A">>

\* ------------------------------------------------- extraction: the claims

EmptyOrNan(s) == Strip(s) = <<>> \/ Strip(s) = <<"n", "a", "n">>

\* The rows handled so far whose From is neither empty nor 'nan'.
KeptRows ==
    SelectSeq([i \in 1..(row - 1) |-> i],
              LAMBDA r : ~ EmptyOrNan(df_pipelines[r].From))

\* C6: the connections are exactly the rows whose From is neither empty nor
\* 'nan', in row order; an empty or 'nan' To has become RELEASE; no
\* connection has an empty or 'nan' endpoint; a row with a missing From
\* cell gives no connection.
C6_ReleaseDefault ==
    pc \in {"rows", "start", "skip"} =>
        /\ Len(connections) = Len(KeptRows)
        /\ \A j \in 1..Len(KeptRows) :
               LET r == df_pipelines[KeptRows[j]]
               IN  /\ j <= Len(connections)
                   /\ connections[j].from = Strip(r.From)
                   /\ connections[j].to =
                          IF EmptyOrNan(r.To)
                          THEN <<"R", "E", "L", "E", "A", "S", "E">>
                          ELSE Strip(r.To)
        /\ \A j \in 1..Len(connections) :
               /\ ~ EmptyOrNan(connections[j].from)
               /\ ~ EmptyOrNan(connections[j].to)
        /\ \A r \in 1..(row - 1) :
               csv_rows[r].From.isna => r \notin Range(KeptRows)

\* C6 witness: the list handed to the flow builder for the rows
\* (" B ", plus-minus "nan") and (missing, "A"): one segment, B to RELEASE.
C6_Witness ==
    /\ pc = "start"
    /\ csv_rows = << [From |-> Text(<<" ", "B", " ">>),
                      To |-> Text(<<"+-", "n", "a", "n">>)],
                     [From |-> Missing, To |-> Text(<<"A">>)] >>
    /\ connections = << [from |-> <<"B">>,
                         to |-> <<"R", "E", "L", "E", "A", "S", "E">>] >>

\* --------------------------------------------------- resolver: the claims

Resolved == pc = "resolved"

AllWhitespace(s) == \A k \in 1..Len(s) : s[k] = " "

\* The tag the fuzzy match compares: lowered and stripped.
TagLower == Strip(ToLower(tag.text))

\* Every reference record with its category, in the order of the walk:
\* equipment, instrumentation, handvalve, each in table order.
Walk ==
    [k \in 1..Len(process_data.Equipment) |->
        [category |-> "equipment", rec |-> process_data.Equipment[k]]]
    \o [k \in 1..Len(process_data.Instrumentation) |->
        [category |-> "instrumentation",
         rec |-> process_data.Instrumentation[k]]]
    \o [k \in 1..Len(process_data.HandValves) |->
        [category |-> "handvalve", rec |-> process_data.HandValves[k]]]

\* The scores of the places of the walk, in walk order.
RECURSIVE ScoresFrom(_, _, _)
ScoresFrom(walk, tag_lower, k) ==
    IF k > Len(walk) THEN <<>>
    ELSE <<similarity(tag_lower, ToLower(walk[k].rec.Tag))>>
         \o ScoresFrom(walk, tag_lower, k + 1)

\* The places whose score no other place exceeds.
BestPlaces(scores) ==
    {k \in 1..Len(scores) :
        \A j \in 1..Len(scores) : ~ ScoreGreater(scores[j], scores[k])}

BestScore(scores) ==
    IF scores = <<>> THEN Ratio(0, 1)
    ELSE scores[CHOOSE k \in BestPlaces(scores) : TRUE]

\* The call went past the blank test and the pipeline test.
Fuzzy ==
    /\ Resolved
    /\ tag.type = "str"
    /\ ~ AllWhitespace(tag.text)
    /\ tag.text \notin all_pipeline_tags

\* C7: a tag equal to a pipeline key, character for character, resolves to
\* {pipeline, null, 1.0} whatever the reference tables hold; a string tag
\* equal to no key never resolves to pipeline.
C7_PipelineExact ==
    (Resolved /\ tag.type = "str") =>
        /\ tag.text \in all_pipeline_tags =>
               match = [category |-> "pipeline", details |-> <<>>,
                        score |-> [num |-> 1, den |-> 1]]
        /\ tag.text \notin all_pipeline_tags => match.category # "pipeline"

\* C7 witness: TK1 is a pipeline key and the Equipment table holds a record
\* whose lowered Tag equals the lowered tag; the result is pipeline.
C7_Witness ==
    /\ Resolved
    /\ tag = PyStr(TK1)
    /\ TK1 \in all_pipeline_tags
    /\ Len(process_data.Equipment) > 0
    /\ process_data.Equipment[1].Tag = tk1
    /\ match.category = "pipeline"

\* C8: for a non-blank tag that is no pipeline key the score returned is the
\* best score over all reference records; at or above the threshold the
\* category and details are those of a record with that score, below it
\* the result is node with details null.
C8_Threshold ==
    Fuzzy =>
        LET walk == Walk
            scores == ScoresFrom(walk, TagLower, 1)
            best == BestScore(scores)
        IN  /\ match.score = best
            /\ ScoreAtLeast(best, threshold) =>
                   \E k \in BestPlaces(scores) :
                       /\ match.category = walk[k].category
                       /\ match.details = <<walk[k].rec>>
            /\ ~ ScoreAtLeast(best, threshold) =>
                   /\ match.category = "node"
                   /\ match.details = <<>>

\* C8 witness: the best score 3/5 equals the threshold 0.6 and is accepted.
C8_Witness ==
    /\ Fuzzy
    /\ threshold = [num |-> 3, den |-> 5]
    /\ match.score = [num |-> 3, den |-> 5]
    /\ match.category = "equipment"
    /\ match.details = << [Tag |-> TK1OUT, row |-> 1] >>

\* C9 (as claimed): the record returned is the first of the walk with the
\* best score, also when two records of a table have Tags that are equal
\* after lowercasing.
C9_FirstBestWins ==
    Fuzzy =>
        LET walk == Walk
            scores == ScoresFrom(walk, TagLower, 1)
            k == Min(BestPlaces(scores))
        IN  ScoreAtLeast(BestScore(scores), threshold) =>
                /\ match.category = walk[k].category
                /\ match.details = <<walk[k].rec>>

\* C10: a tag that is no string, or empty, or all whitespace resolves to
\* {node, null, 0} whatever the pipeline keys and the tables are; nothing
\* is raised.
C10_BlankIsNode ==
    (Resolved /\ (tag.type # "str" \/ AllWhitespace(tag.text))) =>
        match = [category |-> "node", details |-> <<>>,
                 score |-> [num |-> 0, den |-> 1]]

\* C10 witness: None was resolved against tables that hold records.
C10_Witness ==
    /\ Resolved
    /\ tag = PyNone
    /\ Len(process_data.Equipment) > 0
    /\ match.category = "node"

\* ------------------------------------------- flow builder: label coverage

\* The labels the segments name, and how often an index has been marked.
Endpoints == {connections[i].from : i \in 1..Len(connections)}
             \cup {connections[i].to : i \in 1..Len(connections)}

TimesUsed(i) ==
    Cardinality({k \in 1..Len(used_connections) : used_connections[k] = i})

\* The flow holds exactly the endpoints of the segments.
FlowCoversEndpoints == Range(flow) = Endpoints

\* C20 (as claimed): for every non-empty list, a single segment included,
\* the flow holds exactly the endpoints and every index is marked used once.
C20_MarkedOnceAlways ==
    (pc = "done" /\ Len(connections) >= 1) =>
        /\ FlowCoversEndpoints
        /\ \A i \in 1..Len(connections) : TimesUsed(i) = 1

\* C20: on return from a non-empty list every from and every to label is in
\* the flow and every label of the flow is an endpoint of a segment; with
\* two or more segments every index has been marked used exactly once,
\* while a single segment is returned before any index is marked.
C20_Coverage ==
    (pc = "done" /\ Len(connections) >= 1) =>
        /\ FlowCoversEndpoints
        /\ Len(connections) >= 2 =>
               \A i \in 1..Len(connections) : TimesUsed(i) = 1
        /\ Len(connections) = 1 => used_connections = <<>>

\* C20 witness: after a tail extension the fallback has absorbed a self-loop,
\* whose label enters the flow once.
C20_Witness ==
    /\ pc = "done"
    /\ connections = <<Seg("A", "B"), Seg("B", "C"), Seg("D", "D")>>
    /\ flow = <<"A", "B", "C", "D">>
    /\ used_connections = <<1, 2, 3>>

\* ---------------------------------------------------- normalize_tag: claims

\* C14: for a string, in either copy, the result holds only characters of
\* [a-z0-9], normalizing the result again gives the result, and a text that
\* differs in the case of a letter or by a punctuation or whitespace
\* character has the same result; so have "HV-MK.H441" and "hvmkh441".
C14_Idempotent ==
    norm_arg.type = "str" =>
        /\ \A k \in 1..Len(norm_calls) :
               /\ norm_calls[k].result.type = "str"
               /\ Range(norm_calls[k].result.text)
                      \subseteq (Range(LowerCase) \cup Digits)
        /\ Len(norm_calls) >= 2 =>
               norm_calls[2].result = norm_calls[1].result
        /\ Len(norm_calls) >= 3 =>
               norm_calls[3].result = norm_calls[1].result

\* C14 witness: the chat copy has normalized "HV-MK.H441", its result again,
\* and "hvmkh441"; the pipeline copy has done the same on another path.
C14_Witness ==
    /\ Len(norm_calls) = 3
    /\ norm_arg = PyStr(HVMKH441)
    /\ norm_variant = PyStr(hvmkh441)
    /\ norm_calls[1].result = PyStr(hvmkh441)
    /\ norm_calls[3].arg = PyStr(hvmkh441)

\* C15 (as claimed): in either copy a value that is no string gives an empty
\* result, "" or at least None.
C15_NonStringEmpty ==
    \A k \in 1..Len(norm_calls) :
        norm_calls[k].arg.type # "str" =>
            norm_calls[k].result \in {PyStr(<<>>), PyNone}

\* ------------------------------------------------- documents: the claims

Classified == pc = "classified"

\* The document the classifier was given.
InputDocument ==
    IF json_path = "merged_pid_core.json" THEN merged_json
    ELSE normalized_json

\* Every value of an entry that holds a label, in a fixed order: start,
\* end, the flow, the connections' from, the connections' to.
LabelsOf(e) ==
    <<e.start, e.end>> \o e.complete_flow
    \o [k \in 1..Len(e.all_connections) |-> e.all_connections[k].from]
    \o [k \in 1..Len(e.all_connections) |-> e.all_connections[k].to]

IsNode(v) == v.type = "dict"

TagOf(v) == IF IsNode(v) THEN v.tag ELSE v

\* C11: in the classified document every resolved node whose tag is a key
\* of complete_pipeline_flows has category pipeline and details null, and
\* no equipment, instrumentation or handvalve node has a key as its tag.
C11_PipelineCategory ==
    Classified =>
        LET flows == classified_json.complete_pipeline_flows
        IN  \A p \in DOMAIN flows :
                \A n \in {v \in Range(LabelsOf(flows[p])) : IsNode(v)} :
                    /\ n.tag.text \in DOMAIN flows =>
                           n.category = "pipeline" /\ n.details = <<>>
                    /\ n.category \in {"equipment", "instrumentation",
                                       "handvalve"} =>
                           n.tag.text \notin DOMAIN flows

\* C11 witness: P-200 is a pipeline key and the Tag of an Equipment record;
\* the flow of P-100 holds the label P-200, resolved to pipeline.
C11_Witness ==
    /\ Classified
    /\ P200 \in DOMAIN classified_json.complete_pipeline_flows
    /\ \E k \in 1..Len(classified_json.process_data.Equipment) :
           classified_json.process_data.Equipment[k].Tag = P200
    /\ \E n \in Range(classified_json.complete_pipeline_flows[P100]
                          .complete_flow) :
           n.tag = PyStr(P200) /\ n.category = "pipeline"

\* C12: the classified complete_flow has the length of the flow that was
\* read and its i-th node has the i-th label as tag; the classified
\* all_connections has the length of the list that was read and its i-th
\* connection has the i-th from and to as tags.
C12_OneToOne ==
    Classified =>
        LET out == classified_json.complete_pipeline_flows
            inp == InputDocument.complete_pipeline_flows
        IN  /\ DOMAIN out = DOMAIN inp
            /\ \A p \in DOMAIN inp :
                   /\ Len(out[p].complete_flow) = Len(inp[p].complete_flow)
                   /\ \A i \in 1..Len(inp[p].complete_flow) :
                          /\ IsNode(out[p].complete_flow[i])
                          /\ out[p].complete_flow[i].tag
                                 = inp[p].complete_flow[i]
                   /\ Len(out[p].all_connections)
                          = Len(inp[p].all_connections)
                   /\ \A i \in 1..Len(inp[p].all_connections) :
                          /\ out[p].all_connections[i].from.tag
                                 = inp[p].all_connections[i].from
                          /\ out[p].all_connections[i].to.tag
                                 = inp[p].all_connections[i].to

\* C12 witness: the flow TK-01, PU-01, TK-01 of a cycle, classified: three
\* nodes, the first and the third with the same tag.
C12_Witness ==
    /\ Classified
    /\ json_path = "merged_pid_core.json"
    /\ LET f == classified_json.complete_pipeline_flows[P100].complete_flow
       IN  /\ Len(f) = 3
           /\ f[1].tag = PyStr(TK01L)
           /\ f[2].tag = PyStr(PU01L)
           /\ f[3] = f[1]

\* C13 (as claimed): in the merged document start and end are the first and
\* the last label of complete_flow; in the classified document, also the
\* one made from the normalized document, start and end are resolved nodes
\* equal to the first and the last node of complete_flow.
C13_StartEndNodes ==
    /\ \A p \in DOMAIN merged_json.complete_pipeline_flows :
           LET e == merged_json.complete_pipeline_flows[p]
           IN  e.complete_flow # <<>> =>
                   /\ e.start = e.complete_flow[1]
                   /\ e.end = Last(e.complete_flow)
    /\ Classified =>
           \A p \in DOMAIN classified_json.complete_pipeline_flows :
               LET e == classified_json.complete_pipeline_flows[p]
               IN  e.complete_flow # <<>> =>
                       /\ IsNode(e.start) /\ e.start = e.complete_flow[1]
                       /\ IsNode(e.end) /\ e.end = Last(e.complete_flow)

\* The spec's end-to-end scenario: P-100 with TK-01 to PU-01 and PU-01 to
\* RELEASE, and an Equipment table with TK01 and PU01.
ScenarioDocument ==
    MergedDocument(<< [from |-> TK01L, to |-> PU01L],
                      [from |-> PU01L, to |-> RELEASE] >>, <<>>,
                   [Equipment |-> << [Tag |-> TK01, row |-> 1],
                                     [Tag |-> PU01, row |-> 2] >>,
                    Instrumentation |-> <<>>, HandValves |-> <<>>])

\* C16 (as claimed): the scenario's classified flow is TK-01, PU-01, RELEASE;
\* the first two nodes are equipment with the TK01 and the PU01 record as
\* details, the last is a node without details.
C16_Scenario ==
    (Classified /\ merged_json = ScenarioDocument) =>
        classified_json.complete_pipeline_flows[P100].complete_flow =
            << [type |-> "dict", tag |-> PyStr(TK01L),
                category |-> "equipment",
                details |-> << [Tag |-> TK01, row |-> 1] >>],
               [type |-> "dict", tag |-> PyStr(PU01L),
                category |-> "equipment",
                details |-> << [Tag |-> PU01, row |-> 2] >>],
               [type |-> "dict", tag |-> PyStr(RELEASE),
                category |-> "node", details |-> <<>>] >>

\* One stage keeps the pipeline tags: the keys are the same, pipeline_tag is
\* the same, and a label that is a key is emitted as it was read.
KeepsPipelineTags(inp, out) ==
    /\ DOMAIN out.complete_pipeline_flows = DOMAIN inp.complete_pipeline_flows
    /\ \A p \in DOMAIN inp.complete_pipeline_flows :
           LET a == inp.complete_pipeline_flows[p]
               b == out.complete_pipeline_flows[p]
           IN  /\ b.pipeline_tag = a.pipeline_tag
               /\ Len(LabelsOf(b)) = Len(LabelsOf(a))
               /\ \A i \in 1..Len(LabelsOf(a)) :
                      LabelsOf(a)[i].text
                          \in DOMAIN inp.complete_pipeline_flows =>
                              TagOf(LabelsOf(b)[i]) = LabelsOf(a)[i]

\* C17: normalize_merged_pid and classify_tags_preserve_flow each keep the
\* pipeline tags of the document they read; the normalizer also leaves a
\* reference record's Tag alone when it is a pipeline key.
C17_KeysVerbatim ==
    /\ normalized_json # <<>> =>
           /\ KeepsPipelineTags(merged_json, normalized_json)
           /\ \A t \in {"Equipment", "Instrumentation", "HandValves"} :
                  \A k \in 1..Len(merged_json.process_data[t]) :
                      merged_json.process_data[t][k].Tag
                          \in DOMAIN merged_json.complete_pipeline_flows =>
                              normalized_json.process_data[t][k]
                                  = merged_json.process_data[t][k]
    /\ Classified => KeepsPipelineTags(InputDocument, classified_json)

\* C17 witness: the document went through both stages; P-100 and P-200 are
\* still its keys, pipeline_tag is still P-100, the labels P-200 and P-100
\* in the flows are unchanged and the Equipment record P-200 kept its Tag.
C17_Witness ==
    /\ Classified
    /\ json_path = "normalized_merged_pid2.json"
    /\ DOMAIN classified_json.complete_pipeline_flows = {P100, P200}
    /\ classified_json.complete_pipeline_flows[P100].pipeline_tag
           = PyStr(P100)
    /\ TagOf(classified_json.complete_pipeline_flows[P100].start)
           = PyStr(P200)
    /\ TagOf(classified_json.complete_pipeline_flows[P200].end) = PyStr(P100)
    /\ Len(classified_json.process_data.Equipment) = 3
    /\ classified_json.process_data.Equipment[3].Tag = P200

\* ------------------------------------------------------- the chat: claims

\* C18: for every input, whether the completion call answers or raises, one
\* user message and then one assistant message are appended, so that
\* chat_history alternates user, assistant and has even length.
C18_Alternates ==
    /\ Len(chat_history) % 2 = 0
    /\ \A k \in 1..Len(chat_history) :
           chat_history[k].role = (IF k % 2 = 1 THEN "user" ELSE "assistant")

\* C19: after every build_local_context call PIPELINES and the three lists
\* of PROCESS_DATA have the content they had right after the load, and
\* TAG_TO_PIPELINES is the index built from the loaded pipelines.
C19_ReadOnly ==
    pc = "chat" =>
        /\ PIPELINES = classified_json.complete_pipeline_flows
        /\ PROCESS_DATA = classified_json.process_data
        /\ TAG_TO_PIPELINES =
               build_tag_index(classified_json.complete_pipeline_flows)

\* The latest turn's context held the Equipment list itself and a pipeline
\* that starts at an equipment.
AliasedEquipmentPulled ==
    /\ context # <<>>
    /\ chat_history # <<>>
    /\ Branch(ToLower(chat_history[Len(chat_history) - 1].content))
           = "equipment"
    /\ \E k \in DOMAIN context.pipelines :
           /\ IsNode(context.pipelines[k].start)
           /\ context.pipelines[k].start.category = "equipment"
           /\ context.pipelines[k].start.details # NoDetails

\* Two turns: in the first the context held PIPELINES itself and was
\* updated with the pipelines found for the query, the second is as above.
C19_Witness ==
    /\ pc = "chat"
    /\ Len(chat_history) = 4
    /\ Branch(ToLower(chat_history[1].content)) = "pipelines"
    /\ chat_history[2].role = "assistant"
    /\ AliasedEquipmentPulled

\* C21 (state): while the loop runs the flow has one entry more than the
\* segments consumed; a returned flow of n >= 1 segments has between 2 and
\* 2n entries.
C21_Lengths ==
    /\ pc = "loop" => Len(flow) = Len(used_connections) + 1
    /\ pc = "done" /\ Len(connections) >= 1 =>
           /\ Len(flow) >= 2
           /\ Len(flow) <= 2 * Len(connections)

\* C21 (step): a return without the fallback (the single-segment return or
\* the failing while condition) gives n + 1 entries; the fallback firing
\* with k segments consumed gives between k + 1 and k + 1 + 2(n - k).
C21_Return ==
    pc # "done" /\ pc' = "done" /\ Len(connections) >= 1 =>
        IF pc = "loop" /\ Len(used_connections) < Len(connections)
        THEN /\ Len(flow') >= Len(used_connections) + 1
             /\ Len(flow') <= Len(used_connections) + 1
                    + 2 * (Len(connections) - Len(used_connections))
        ELSE Len(flow') = Len(connections) + 1

\* C21: the flow returned for n >= 1 segments has exactly n + 1 entries when
\* the disconnected-segment fallback never fires, between k + 1 and
\* k + 1 + 2(n - k) entries when it fires with k segments consumed, and in
\* all cases at least 2 and at most 2n entries.
C21_FlowLength == []C21_Lengths /\ [][C21_Return]_vars

\* C21 witness: the fallback fired with two segments consumed and the one
\* left, a self-loop on the middle label, added nothing (k + 1 = 3 entries,
\* fewer than n + 1).
C21_Witness ==
    /\ pc = "done"
    /\ connections = <<Seg("A", "B"), Seg("B", "C"), Seg("B", "B")>>
    /\ iters = 2
    /\ used_connections = <<1, 2, 3>>
    /\ flow = <<"A", "B", "C">>

====
